---- MODULE Spec2Model ----
(***************************************************************************)
(* Model of slm_interface.py: the Exercise and Evaluation dataclasses and  *)
(* the abstract base class SLMInterface.                                   *)
(*                                                                         *)
(* The state is a small Python heap: the Exercise objects, the Evaluation  *)
(* objects, the dict objects that metadata fields point to, and the        *)
(* provider instances created from subclasses of SLMInterface.  `error`    *)
(* is the exception raised by the last operation ("none" when it           *)
(* completed), `result` the value of the last == comparison, and `last`    *)
(* names the last operation and the objects it was applied to.             *)
(***************************************************************************)
EXTENDS Integers, Sequences, FiniteSets, TLC

VARIABLES exercises, evaluations, dicts, providers, error, result, last

vars == <<exercises, evaluations, dicts, providers, error, result, last>>

(***************************************************************************)
(* Bounds of the model.                                                    *)
(***************************************************************************)
MaxExercises == 2
MaxEvaluations == 3
MaxDicts == 2
MaxProviders == 1
MaxOptions == 1

(***************************************************************************)
(* Python values.  A value is [t |-> type name, v |-> payload].  Strings   *)
(* are numbered (0 is the empty string ""), bool/int/float carry their     *)
(* numeric value, and a NaN carries the identity of its float object,      *)
(* because Python's container comparison looks at identity before ==.      *)
(* Missing stands for an argument the caller did not pass.                 *)
(***************************************************************************)
Missing == [t |-> "MISSING", v |-> 0]
PyNone == [t |-> "NoneType", v |-> 0]
PyBool(b) == [t |-> "bool", v |-> IF b THEN 1 ELSE 0]
PyInt(n) == [t |-> "int", v |-> n]
PyFloat(n) == [t |-> "float", v |-> n]
PyInf == [t |-> "float_inf", v |-> 0]
PyNaN(id) == [t |-> "float_nan", v |-> id]
PyStr(n) == [t |-> "str", v |-> n]

IsNumber(x) == x.t \in {"bool", "int", "float"}
IsNaN(x) == x.t = "float_nan"

\* Python's == on two values: numbers compare by numeric value across
\* bool/int/float, NaN is unequal to everything including itself.
PyEq(x, y) ==
    IF IsNaN(x) \/ IsNaN(y) THEN FALSE
    ELSE IF IsNumber(x) /\ IsNumber(y) THEN x.v = y.v
    ELSE x = y

\* The element comparison of tuple ==: identity first, then ==.  Identity
\* only matters for NaN, the one value that is not == to itself.
PyIsOrEq(x, y) == (IsNaN(x) /\ x = y) \/ PyEq(x, y)

\* An options value: None, or a list of values.
OptMissing == [t |-> "MISSING", items |-> <<>>]
OptNone == [t |-> "NoneType", items |-> <<>>]
OptList(s) == [t |-> "list", items |-> s]

\* Argument values the operations are exercised with.
PromptArgs == {Missing, PyNone, PyStr(1)}
OptionsArgs == {OptMissing, OptNone, OptList(<<>>)}
AnswerArgs == {Missing, PyNone}
IsCorrectArgs == {Missing, PyNone, PyBool(TRUE)}
ScoreArgs == {Missing, PyFloat(1), PyInf, PyNaN(1)}
FeedbackArgs == {Missing, PyNone, PyStr(1)}
Keys == {"difficulty"}
Methods == {"generate_exercise", "evaluate_response", "provide_feedback"}

NoOp == [op |-> "init", a |-> 0, b |-> 0, omitted |-> {}]

Init ==
    /\ exercises = <<>>
    /\ evaluations = <<>>
    /\ dicts = <<>>
    /\ providers = <<>>
    /\ error = "none"
    /\ result = FALSE
    /\ last = NoOp

(***************************************************************************)
(* Exercise (lines 18-41).                                                 *)
(***************************************************************************)
\* Variant: prompt declared with a default, like the other three fields.
ExerciseRequiredNone == {}

\* The parameters of Exercise.__init__ that have no default.
ExerciseRequired == {"prompt"}

\* The names of the parameters a call leaves out.
ExerciseOmitted(prompt, options, answer, metadata) ==
    (IF prompt = Missing THEN {"prompt"} ELSE {})
    \cup (IF options = OptMissing THEN {"options"} ELSE {})
    \cup (IF answer = Missing THEN {"answer"} ELSE {})
    \cup (IF metadata = 0 THEN {"metadata"} ELSE {})

\* Variant: one dict object serves as the default of every instance.
DefaultMetadataShared(ds) == 1

\* The dict object the metadata field of a new Exercise points to: the one
\* passed, or a new dict made by default_factory for this instance.
DefaultMetadata(ds) == Len(ds) + 1

\* Exercise(prompt, options, answer, metadata).  metadata = 0: not passed;
\* 1..Len(dicts): an existing dict object; Len(dicts)+1: a dict created for
\* the call.  The generated __init__ assigns the arguments without looking
\* at their types.  `defaulted` is bookkeeping: the call passed no metadata,
\* so the field holds the dict default_factory made for this instance.
NewExercise(prompt, options, answer, metadata) ==
    LET omitted == ExerciseOmitted(prompt, options, answer, metadata)
        md == IF metadata = 0 THEN DefaultMetadata(dicts) ELSE metadata
    IN  /\ Len(exercises) < MaxExercises
        /\ md <= MaxDicts
        /\ metadata <= Len(dicts) + 1
        /\ IF omitted \cap ExerciseRequired # {}
           THEN /\ error' = "TypeError"
                /\ last' = [op |-> "Exercise", a |-> 0, b |-> 0, omitted |-> omitted]
                /\ UNCHANGED <<exercises, dicts>>
           ELSE /\ error' = "none"
                /\ exercises' = Append(exercises,
                       [prompt |-> prompt,
                        options |-> IF options = OptMissing THEN OptNone ELSE options,
                        answer |-> IF answer = Missing THEN PyNone ELSE answer,
                        metadata |-> md,
                        defaulted |-> (metadata = 0)])
                /\ dicts' = IF md > Len(dicts) THEN Append(dicts, {}) ELSE dicts
                /\ last' = [op |-> "Exercise", a |-> Len(exercises) + 1, b |-> 0,
                            omitted |-> omitted]
        /\ UNCHANGED <<evaluations, providers, result>>

\* exercise.prompt = value: the dataclass is not frozen, so attribute
\* assignment rebinds the field.
SetExercisePrompt(i, value) ==
    /\ i \in 1..Len(exercises)
    /\ exercises' = [exercises EXCEPT ![i].prompt = value]
    /\ error' = "none"
    /\ last' = [op |-> "setattr", a |-> i, b |-> 0, omitted |-> {}]
    /\ UNCHANGED <<evaluations, dicts, providers, result>>

\* exercise.metadata[k] = ...: the dict object the field points to gains k.
MetadataInsert(i, k) ==
    /\ i \in 1..Len(exercises)
    /\ dicts' = [dicts EXCEPT ![exercises[i].metadata] = @ \cup {k}]
    /\ error' = "none"
    /\ last' = [op |-> "insert", a |-> i, b |-> 0, omitted |-> {}]
    /\ UNCHANGED <<exercises, evaluations, providers, result>>

\* exercise.options.append(x): None has no append.
OptionsAppend(i, x) ==
    /\ i \in 1..Len(exercises)
    /\ IF exercises[i].options.t = "list"
       THEN /\ Len(exercises[i].options.items) < MaxOptions
            /\ exercises' = [exercises EXCEPT ![i].options.items = Append(@, x)]
            /\ error' = "none"
       ELSE /\ error' = "AttributeError"
            /\ UNCHANGED exercises
    /\ last' = [op |-> "append", a |-> i, b |-> 0, omitted |-> {}]
    /\ UNCHANGED <<evaluations, dicts, providers, result>>

(***************************************************************************)
(* SLMInterface (lines 53-77).                                             *)
(***************************************************************************)
\* Variant: provide_feedback not marked @abstractmethod.
AbstractMethodsNoFeedback == {"generate_exercise", "evaluate_response"}

\* The methods SLMInterface marks @abstractmethod.
AbstractMethods == {"generate_exercise", "evaluate_response", "provide_feedback"}

\* cls.__abstractmethods__ of a class that derives from SLMInterface and
\* overrides the methods in impl (impl = {} is SLMInterface itself).
StillAbstract(impl) == AbstractMethods \ impl

\* cls(): ABC refuses to create an instance of a class that still has
\* abstract methods.  A provider object is recorded by the set of methods
\* its class overrides.
Instantiate(impl) ==
    /\ IF StillAbstract(impl) # {}
       THEN /\ error' = "TypeError"
            /\ UNCHANGED providers
            /\ last' = [op |-> "instantiate", a |-> 0, b |-> 0,
                        omitted |-> Methods \ impl]
       ELSE /\ Len(providers) < MaxProviders
            /\ error' = "none"
            /\ providers' = Append(providers, impl)
            /\ last' = [op |-> "instantiate", a |-> Len(providers) + 1, b |-> 0,
                        omitted |-> Methods \ impl]
    /\ UNCHANGED <<exercises, evaluations, dicts, result>>

\* provider.m(...): the call is dispatched on the instance; it needs a
\* provider object and, for evaluate_response and provide_feedback, some
\* Exercise (e = 0 for generate_exercise, which takes none).  What the
\* override then does is code of the concrete class.
Call(p, m, e) ==
    /\ p \in 1..Len(providers)
    /\ m \in Methods
    /\ IF m = "generate_exercise" THEN e = 0 ELSE e \in 1..Len(exercises)
    /\ error' = "none"
    /\ last' = [op |-> m, a |-> p, b |-> e, omitted |-> {}]
    /\ UNCHANGED <<exercises, evaluations, dicts, providers, result>>

(***************************************************************************)
(* Evaluation (lines 44-50).                                               *)
(***************************************************************************)
\* The parameters of Evaluation.__init__ that have no default.
EvaluationRequired == {"is_correct", "score"}

EvaluationOmitted(is_correct, score, feedback) ==
    (IF is_correct = Missing THEN {"is_correct"} ELSE {})
    \cup (IF score = Missing THEN {"score"} ELSE {})
    \cup (IF feedback = Missing THEN {"feedback"} ELSE {})

\* Evaluation(is_correct, score, feedback).
NewEvaluation(is_correct, score, feedback) ==
    LET omitted == EvaluationOmitted(is_correct, score, feedback)
    IN  /\ Len(evaluations) < MaxEvaluations
        /\ IF omitted \cap EvaluationRequired # {}
           THEN /\ error' = "TypeError"
                /\ last' = [op |-> "Evaluation", a |-> 0, b |-> 0, omitted |-> omitted]
                /\ UNCHANGED evaluations
           ELSE /\ error' = "none"
                /\ evaluations' = Append(evaluations,
                       [is_correct |-> is_correct,
                        score |-> score,
                        feedback |-> IF feedback = Missing THEN PyNone ELSE feedback])
                /\ last' = [op |-> "Evaluation", a |-> Len(evaluations) + 1, b |-> 0,
                            omitted |-> omitted]
        /\ UNCHANGED <<exercises, dicts, providers, result>>

\* evaluation.score = value.
SetEvaluationScore(i, value) ==
    /\ i \in 1..Len(evaluations)
    /\ evaluations' = [evaluations EXCEPT ![i].score = value]
    /\ error' = "none"
    /\ last' = [op |-> "setattr", a |-> i, b |-> 0, omitted |-> {}]
    /\ UNCHANGED <<exercises, dicts, providers, result>>

\* The fields the generated __eq__ compares (every field: none is declared
\* with compare=False).
EvaluationCompared == {"is_correct", "score", "feedback"}

\* Variant: eq=False, the == inherited from object (identity).
DataclassEqIdentity(i, j) == {i = j}

\* The values evaluation i == evaluation j can produce.  The generated __eq__
\* compares the two objects as tuples of their fields (identity of an element
\* counts as equality) up to Python 3.12, and from 3.13 returns True for
\* the same object and otherwise compares field by field with ==.
DataclassEq(i, j) ==
    LET x == evaluations[i]
        y == evaluations[j]
    IN  { \A f \in EvaluationCompared : PyIsOrEq(x[f], y[f]),
          i = j \/ \A f \in EvaluationCompared : PyEq(x[f], y[f]) }

\* evaluations[i] == evaluations[j].
CompareEvaluations(i, j) ==
    /\ i \in 1..Len(evaluations)
    /\ j \in 1..Len(evaluations)
    /\ result' \in DataclassEq(i, j)
    /\ error' = "none"
    /\ last' = [op |-> "eq", a |-> i, b |-> j, omitted |-> {}]
    /\ UNCHANGED <<exercises, evaluations, dicts, providers>>

ExerciseNext ==
    \/ \E p \in PromptArgs, o \in OptionsArgs, an \in AnswerArgs, m \in 0..MaxDicts :
          NewExercise(p, o, an, m)
    \/ \E i \in 1..MaxExercises, x \in {PyNone, PyStr(1)} : SetExercisePrompt(i, x)
    \/ \E i \in 1..MaxExercises, k \in Keys : MetadataInsert(i, k)
    \/ \E i \in 1..MaxExercises, x \in {PyInt(1)} : OptionsAppend(i, x)

ProviderNext ==
    \/ \E p \in {PyNone, PyStr(1)} : NewExercise(p, OptMissing, Missing, 0)
    \/ \E impl \in SUBSET Methods : Instantiate(impl)
    \/ \E p \in 1..MaxProviders, m \in Methods, e \in 0..MaxExercises : Call(p, m, e)

EvaluationNext ==
    \/ \E c \in IsCorrectArgs \ {Missing}, s \in ScoreArgs \ {Missing}, f \in FeedbackArgs :
          NewEvaluation(c, s, f)
    \/ \E i \in 1..MaxEvaluations, x \in {PyFloat(1), PyNaN(1)} : SetEvaluationScore(i, x)
    \/ \E i \in 1..MaxEvaluations, j \in 1..MaxEvaluations : CompareEvaluations(i, j)

ConstructNext ==
    \/ \E p \in PromptArgs, o \in {OptMissing, OptNone}, an \in AnswerArgs, m \in 0..MaxDicts :
          NewExercise(p, o, an, m)
    \/ \E c \in {Missing, PyNone}, s \in {Missing, PyFloat(1)}, f \in {Missing, PyStr(1)} :
          NewEvaluation(c, s, f)

\* The Exercise heap.
Spec == Init /\ [][ExerciseNext]_vars

\* Provider instances and the calls made on them.
SpecProvider == Init /\ [][ProviderNext]_vars

\* The Evaluation heap.
SpecEvaluation == Init /\ [][EvaluationNext]_vars

\* Construction of both kinds of record.
SpecConstruct == Init /\ [][ConstructNext]_vars

(***************************************************************************)
(* Properties.                                                             *)
(***************************************************************************)
NewestExercise == exercises'[Len(exercises')]
NewestEvaluation == evaluations'[Len(evaluations')]

\* C5: a provider class must implement all three operations.  Instantiating
\* SLMInterface or a subclass that leaves one of them unimplemented raises
\* TypeError and creates no provider object; every provider object that
\* exists, and so every one a call is made on, implements all three.
C5_InstantiationStep ==
    /\ last'.op = "instantiate" =>
          IF last'.omitted # {}
          THEN error' = "TypeError" /\ providers' = providers
          ELSE error' = "none" /\ Len(providers') = Len(providers) + 1
    /\ last'.op \in Methods =>
          last'.a \in 1..Len(providers') /\ providers'[last'.a] = Methods
    /\ \A p \in 1..Len(providers') : providers'[p] = Methods

C5_AllThreeImplemented == [][C5_InstantiationStep]_vars

\* A provider exists and a later instantiation of an incomplete class failed.
C5_Witness ==
    /\ Len(providers) >= 1
    /\ last.op = "instantiate"
    /\ last.omitted = {"provide_feedback"}
    /\ error = "TypeError"

\* What construction does, common to C6 as stated and as amended: a missing
\* required argument raises TypeError and creates no record; otherwise one
\* record is added, its required fields are present and the optional fields
\* that were left out hold their defaults.
ConstructionStep ==
    /\ last'.op = "Exercise" =>
          IF "prompt" \in last'.omitted
          THEN error' = "TypeError" /\ exercises' = exercises /\ dicts' = dicts
          ELSE /\ error' = "none"
               /\ exercises' = Append(exercises, NewestExercise)
               /\ NewestExercise.prompt # Missing
               /\ "options" \in last'.omitted => NewestExercise.options = OptNone
               /\ "answer" \in last'.omitted => NewestExercise.answer = PyNone
               /\ "metadata" \in last'.omitted => dicts'[NewestExercise.metadata] = {}
    /\ last'.op = "Evaluation" =>
          IF last'.omitted \cap {"is_correct", "score"} # {}
          THEN error' = "TypeError" /\ evaluations' = evaluations
          ELSE /\ error' = "none"
               /\ evaluations' = Append(evaluations, NewestEvaluation)
               /\ NewestEvaluation.is_correct # Missing
               /\ NewestEvaluation.score # Missing
               /\ "feedback" \in last'.omitted => NewestEvaluation.feedback = PyNone

\* Every record has its required fields of the declared type.
RequiredFieldsTyped ==
    /\ \A i \in 1..Len(exercises) : exercises[i].prompt.t = "str"
    /\ \A i \in 1..Len(evaluations) :
          /\ evaluations[i].is_correct.t = "bool"
          /\ evaluations[i].score.t \in {"int", "float", "float_inf", "float_nan"}

\* C6 as stated: construction without a required field fails and creates no
\* record, optional fields may be omitted, and every constructed record has
\* its required fields of the declared type (prompt a text, is_correct a
\* boolean, score a number).
C6_ConstructionTyped == [][ConstructionStep /\ RequiredFieldsTyped']_vars

\* C6 as amended: construction without a required field fails and creates
\* no record, optional fields may be omitted and then hold their defaults,
\* and every constructed record has its required fields present; the types
\* of the values are not checked.
C6_ConstructionPresent == [][ConstructionStep]_vars

\* An Exercise built from a prompt alone exists, and a later Evaluation(...)
\* without score failed.
C6_Witness ==
    /\ Len(exercises) >= 1
    /\ exercises[1].options = OptNone
    /\ exercises[1].answer = PyNone
    /\ last.op = "Evaluation"
    /\ "score" \in last.omitted
    /\ error = "TypeError"
    /\ Len(evaluations) >= 1

\* C7: a record never changes once it exists: no field of an Exercise (nor
\* the content of its metadata) and no field of an Evaluation differs
\* between a state and the next.
C7_RecordsUnchangedStep ==
    /\ \A i \in 1..Len(exercises) :
          /\ exercises'[i].prompt = exercises[i].prompt
          /\ exercises'[i].options = exercises[i].options
          /\ exercises'[i].answer = exercises[i].answer
          /\ dicts'[exercises'[i].metadata] = dicts[exercises[i].metadata]
    /\ \A i \in 1..Len(evaluations) : evaluations'[i] = evaluations[i]

C7_RecordsImmutable == [][C7_RecordsUnchangedStep]_vars

\* The three fields of x and y are pairwise equal, read as Python's ==.
FieldsEqual(x, y) ==
    /\ PyEq(x.is_correct, y.is_correct)
    /\ PyEq(x.score, y.score)
    /\ PyEq(x.feedback, y.feedback)

\* The same, read as "the same value": a NaN counts as equal to a NaN.
SameValue(x, y) == (IsNaN(x) /\ IsNaN(y)) \/ PyEq(x, y)

FieldsSame(x, y) ==
    /\ SameValue(x.is_correct, y.is_correct)
    /\ SameValue(x.score, y.score)
    /\ SameValue(x.feedback, y.feedback)

NoNaN(x) == ~IsNaN(x.is_correct) /\ ~IsNaN(x.score) /\ ~IsNaN(x.feedback)

\* == over the Evaluations in E is decided by the fields alone, as F
\* compares them, and is reflexive, symmetric and transitive.
ValueEqualityOn(E, F(_, _)) ==
    /\ \A i, j \in E :
          /\ DataclassEq(i, j) = {F(evaluations[i], evaluations[j])}
          /\ i = j => DataclassEq(i, j) = {TRUE}
          /\ DataclassEq(i, j) = DataclassEq(j, i)
          /\ TRUE \in DataclassEq(i, j) =>
                \A k \in E : TRUE \in DataclassEq(j, k) => DataclassEq(i, k) = {TRUE}
    /\ (last.op = "eq" /\ last.a \in E /\ last.b \in E)
          => result = F(evaluations[last.a], evaluations[last.b])

\* C9 as stated: for all Evaluations a and b, a == b exactly when the three
\* fields are equal, whichever objects they are; the relation is reflexive,
\* symmetric and transitive.  It is taken to hold if it holds under either
\* reading of "the fields are equal".
C9_ValueEquality ==
    \/ ValueEqualityOn(1..Len(evaluations), FieldsEqual)
    \/ ValueEqualityOn(1..Len(evaluations), FieldsSame)

\* C9 as amended: the same, for all Evaluations none of whose fields is NaN
\* (the two readings then agree).
C9_ValueEqualityNoNaN ==
    ValueEqualityOn({i \in 1..Len(evaluations) : NoNaN(evaluations[i])}, FieldsEqual)

\* Two distinct NaN-free Evaluations with equal fields were compared and
\* found equal, and a third one differs from them in feedback only.
C9_Witness ==
    /\ Len(evaluations) = 3
    /\ last.op = "eq"
    /\ last.a # last.b
    /\ result = TRUE
    /\ NoNaN(evaluations[last.a])
    /\ NoNaN(evaluations[last.b])
    /\ \E k \in 1..3 :
          /\ evaluations[k].is_correct = evaluations[last.a].is_correct
          /\ evaluations[k].score = evaluations[last.a].score
          /\ evaluations[k].feedback # evaluations[last.a].feedback

\* An Exercise built from a prompt alone has options None, answer None and
\* a new, empty dict of its own as metadata.
PromptOnlyStep ==
    (last'.op = "Exercise" /\ error' = "none"
        /\ last'.omitted = {"options", "answer", "metadata"})
    => /\ NewestExercise.options = OptNone
       /\ NewestExercise.answer = PyNone
       /\ NewestExercise.metadata > Len(dicts)
       /\ dicts'[NewestExercise.metadata] = {}
       /\ \A j \in 1..Len(exercises) : exercises[j].metadata # NewestExercise.metadata

\* An insertion into the metadata of an Exercise in From leaves the metadata
\* of every other Exercise that was built without a metadata argument as
\* it was.
InsertStep(From) ==
    (last'.op = "insert" /\ last'.a \in From)
    => \A j \in 1..Len(exercises) :
          (j # last'.a /\ exercises[j].defaulted)
             => dicts'[exercises[j].metadata] = dicts[exercises[j].metadata]

\* C10 as stated: defaults are not shared, and inserting a key into the
\* metadata of any one Exercise never changes the metadata of another
\* Exercise that was built without a metadata argument.
C10_NoSharedMetadata == [][PromptOnlyStep /\ InsertStep(1..Len(exercises))]_vars

\* C10 as amended: the same, when the Exercise inserted into was itself
\* built without a metadata argument.
C10_NoSharedDefaults ==
    [][PromptOnlyStep
       /\ InsertStep({i \in 1..Len(exercises) : exercises[i].defaulted})]_vars

\* Two Exercises built without metadata; a key was inserted into the first
\* one's metadata and the second one's is still empty.
C10_Witness ==
    /\ Len(exercises) = 2
    /\ exercises[1].defaulted
    /\ exercises[2].defaulted
    /\ last.op = "insert"
    /\ last.a = 1
    /\ dicts[exercises[1].metadata] # {}
    /\ dicts[exercises[2].metadata] = {}
====
